---- MODULE Spec2Model ----
(***************************************************************************)
(* Transport Connection Manager of the dashboard client.                   *)
(*                                                                         *)
(* WebSocketClientService (src/src/services/websocketClient.ts, the        *)
(* scan-signal channel) and WebSocketService (src/src/services/            *)
(* websocket.ts, the account channel) carry the same connect(),            *)
(* disconnect(), updateCallbacks() and socket handlers, statement for      *)
(* statement; they differ in the callback keys and in handleMessage.  The   *)
(* model is one instance of that connection code together with the browser *)
(* sockets it creates, the pending reconnect timers and the auth token in  *)
(* localStorage.                                                           *)
(*                                                                         *)
(* Browser WebSocket behaviour assumed (WHATWG WebSockets):                *)
(*   - a new socket is CONNECTING; it either opens (open event) or fails   *)
(*     (error event then close event, in one task, readyState CLOSED);     *)
(*   - close() on a CONNECTING socket fails the connection: readyState     *)
(*     CLOSING, later one task delivering error and then close (1006),     *)
(*     and no open event;                                                  *)
(*   - close() on an OPEN socket: readyState CLOSING, later a close event, *)
(*     no message event any more;                                          *)
(*   - close() on a CLOSING or CLOSED socket does nothing;                 *)
(*   - handlers stay attached to a socket the service no longer            *)
(*     references, and setTimeout callbacks are never cancelled.           *)
(***************************************************************************)
EXTENDS Integers, Sequences, FiniteSets

\* ------------------------------------------------------------------ bounds

\* Socket objects that can still deliver events at the same time.
MaxLive == 2
\* Reconnect timers pending at the same time.
MaxTimers == 1

\* ------------------------------------------------------- program constants

maxReconnectAttempts == 5
POLICY_VIOLATION == 1008

\* ------------------------------------------------------------------- types

\* null
NoSocket == "null"
\* A socket object, given by its state.  CONNECTING, OPEN and CLOSED are its
\* readyState; CLOSING_FAIL and CLOSING are both readyState CLOSING: close() was
\* called before, respectively after, the socket opened.
SockStates == {"CONNECTING", "OPEN", "CLOSING_FAIL", "CLOSING", "CLOSED"}
\* A socket the handle no longer refers to and that can still deliver events:
\* its state, and whether it was dropped by disconnect() (otherwise connect()
\* stored another socket over it).
OrphanKinds == (SockStates \ {"CLOSED"}) \X BOOLEAN
NoOrphans == [k \in OrphanKinds |-> 0]

None == "none"
Keys == {"onScanSignal", "onError", "onConnect", "onDisconnect"}
\* The callback objects passed to connect(): nothing, all four keys (the page,
\* caller A), or the data and error keys only (a second consumer, caller B).
Object(ks, c) == [k \in Keys |-> IF k \in ks THEN c ELSE None]
CallbackArgs ==
    {Object({}, "A"), Object(Keys, "A"), Object({"onScanSignal", "onError"}, "B")}
NoCallbacks == [k \in Keys |-> None]
Frames == {"malformed", "scan_signal", "error"}

MsgNoToken == "No authentication token found. Please login again."
MsgCreate == "Failed to create WebSocket connection"
MsgTransport == "WebSocket connection error"
MsgAuthFailed == "Authentication failed. Please login again."
MsgExpired == "Authentication token expired. Please login again."
MsgMaxAttempts == "Failed to reconnect to WebSocket server after multiple attempts"
MsgFrame == "error frame"
NoMsg == ""

VARIABLES
    ws,                 \* this.ws: null, or the socket in the handle (its state)
    reconnectAttempts,  \* this.reconnectAttempts
    callbacks,          \* this.callbacks: key -> owner of the function, or None
    isConnecting,       \* this.isConnecting
    shouldReconnect,    \* this.shouldReconnect
    orphans,            \* the other sockets created: kind -> how many
    timers,             \* number of pending setTimeout reconnect callbacks
    token,              \* localStorage holds auth_token
    stopped,            \* history: why the channel was stopped since the caller's
                        \* last connect(): "disconnect", "auth" (authentication failure)
    last                \* history: what the last step was and what it did

\* The message normalizer: handleMessage of one service applied to one frame.
VARIABLES
    channel,            \* which service: "account" (websocket.ts) or "client"
    registered,         \* the keys of this.callbacks that hold a function
    inbound,            \* the frame received: whether it decodes, and its value
    delivered,          \* the callbacks ws.onmessage invoked for it, with arguments
    escaped,            \* an exception left ws.onmessage
    phase               \* "off", "waiting", "received", "handled"

connectionVars == <<ws, reconnectAttempts, callbacks, isConnecting, shouldReconnect,
                    orphans, timers, token, stopped, last>>
normalizerVars == <<channel, registered, inbound, delivered, escaped, phase>>

\* The chart: one mounted SignalChart, its parent and its requests.
VARIABLES
    viewport,           \* window.innerWidth and the canvas container's width
    symbol,             \* the symbol prop
    symbolList,         \* the symbolList prop
    currentSymbol,      \* state: the symbol displayed
    selectedIndex,      \* state: the selected candle, or NoSelection
    chartData,          \* state data: the candles loaded (their symbol and number)
    requests,           \* the symbols whose getCandles request is in flight
    chartLast           \* what the last step of the chart was

chartVars == <<viewport, symbol, symbolList, currentSymbol, selectedIndex,
               chartData, requests, chartLast>>

\* drawChart: the dataset it draws and what it computed.
VARIABLES
    candles,            \* the candles of the dataset: their low and high
    drawn               \* what the last drawChart computed

drawVars == <<candles, drawn>>

vars == <<connectionVars, normalizerVars, chartVars, drawVars>>

\* ------------------------------------------------- decoded JSON values (JS)

\* A JavaScript value as JSON.parse returns it, or undefined.  t: its type;
\* s: a string's content, as a sequence of tokens; n: a number's value; a: an
\* array's elements; o: an object's properties (a property that is absent reads
\* as undefined).
Fields == {"event", "type", "data", "message", "balance", "symbol"}
JSValue(t, s, n, a, o) == [t |-> t, s |-> s, n |-> n, a |-> a, o |-> o]
Undefined == JSValue("undefined", <<>>, 0, <<>>, <<>>)
Null == JSValue("null", <<>>, 0, <<>>, <<>>)
Bool(b) == JSValue(IF b THEN "true" ELSE "false", <<>>, 0, <<>>, <<>>)
Num(n) == JSValue("number", <<>>, n, <<>>, <<>>)
Str(s) == JSValue("string", s, 0, <<>>, <<>>)
Arr(a) == JSValue("array", <<>>, 0, a, <<>>)
\* The object whose properties are those of the record o.
Obj(o) ==
    JSValue("object", <<>>, 0, <<>>,
            [f \in Fields |-> IF f \in DOMAIN o THEN o[f] ELSE Undefined])

\* v is null or undefined: reading a property of it throws a TypeError.
Nullish(v) == v.t \in {"null", "undefined"}
\* Boolean(v)
Truthy(v) ==
    \/ v.t \in {"true", "object", "array"}
    \/ v.t = "number" /\ v.n # 0
    \/ v.t = "string" /\ v.s # <<>>
\* a || b
Or(a, b) == IF Truthy(a) THEN a ELSE b
\* v.f, for v not nullish
Get(v, f) == IF v.t = "object" THEN v.o[f] ELSE Undefined
\* v?.f
OptGet(v, f) == IF Nullish(v) THEN Undefined ELSE Get(v, f)
\* f in v, for an object v
In(f, v) == v.o[f] # Undefined
\* Array.isArray(v)
IsArray(v) == v.t = "array"
\* v has a method includes: strings and arrays do.
HasIncludes(v) == v.t \in {"string", "array"}
\* v.includes(word): word occurs in the string v, or is an element of the array v.
Includes(v, word) ==
    IF v.t = "string"
    THEN \E i \in 1 .. Len(v.s) : v.s[i] = word
    ELSE \E i \in 1 .. Len(v.a) : v.a[i] = Str(<<word>>)

\* ------------------------------------------------------ message normalizer

AccountKeys == {"onBotStatus", "onBalance", "onPositions", "onIncomeHistory",
                "onSpotOrders", "onError"}
ClientKeys == {"onScanSignal", "onError"}
UnknownError == Str(<<"Unknown error">>)

\* What a handler did: the callbacks it invoked, and whether it threw.
Done(calls) == [calls |-> calls, threw |-> FALSE]
Throws == [calls |-> <<>>, threw |-> TRUE]
\* this.callbacks.key?.(arg)
Emit(cbs, key, arg) ==
    Done(IF key \in cbs THEN <<[key |-> key, arg |-> arg]>> ELSE <<>>)

\* messageType with the priority of the two fields swapped.
messageType_typeFirst(message) == Or(Get(message, "type"), Get(message, "event"))

\* const messageType = message.event || message.type
messageType(message) == Or(Get(message, "event"), Get(message, "type"))

\* positionsArray that wraps every non-array payload.
positionsArray_wrapsAll(data) ==
    IF IsArray(data) THEN data ELSE Arr(<<data>>)

\* const positionsArray (case 'positions')
positionsArray(data) ==
    IF IsArray(data) THEN data
    ELSE IF Truthy(data) THEN Arr(<<data>>) ELSE Arr(<<>>)

\* const positionUpdateArray (case 'position_update')
positionUpdateArray(data) ==
    IF IsArray(data) THEN data ELSE Arr(<<data>>)

\* const incomeArray, const spotOrdersArray
ArrayOrEmpty(data) == IF IsArray(data) THEN data ELSE Arr(<<>>)

\* message.data?.message || message.data || 'Unknown error'
ErrorArgument(data) == Or(Or(OptGet(data, "message"), data), UnknownError)

\* The default branch of the switch: messageType?.includes(...)
GenericUpdate(cbs, kind, data) ==
    IF Nullish(kind) THEN Done(<<>>)
    ELSE IF ~HasIncludes(kind) THEN Throws
    ELSE IF Includes(kind, "balance") \/ Includes(kind, "account")
    THEN Emit(cbs, "onBalance", data)
    ELSE IF Includes(kind, "position")
    THEN Emit(cbs, "onPositions", positionUpdateArray(data))
    ELSE Done(<<>>)

\* WebSocketService.handleMessage (websocket.ts)
WebSocketService_handleMessage(cbs, message) ==
    IF Nullish(message) THEN Throws
    ELSE LET kind == messageType(message)
             data == Get(message, "data")
         IN  CASE kind \in {Str(<<"bot_status">>), Str(<<"status_update">>)} ->
                    Emit(cbs, "onBotStatus", data)
               [] kind = Str(<<"balance">>) ->
                    Emit(cbs, "onBalance", data)
               [] kind \in {Str(<<"balance", "_update">>), Str(<<"account", "_update">>)} ->
                    IF OptGet(data, "balance") # Undefined
                    THEN Emit(cbs, "onBalance", Get(data, "balance"))
                    ELSE Emit(cbs, "onBalance", data)
               [] kind = Str(<<"position", "s">>) ->
                    Emit(cbs, "onPositions", positionsArray(data))
               [] kind = Str(<<"position", "_update">>) ->
                    Emit(cbs, "onPositions", positionUpdateArray(data))
               [] kind = Str(<<"income_history">>) ->
                    Emit(cbs, "onIncomeHistory", ArrayOrEmpty(data))
               [] kind = Str(<<"spot_orders">>) ->
                    Emit(cbs, "onSpotOrders", ArrayOrEmpty(data))
               [] kind = Str(<<"error">>) ->
                    Emit(cbs, "onError", ErrorArgument(data))
               [] OTHER -> GenericUpdate(cbs, kind, data)

\* handleMessage of the scan-signal channel that skips an empty batch.
WebSocketClientService_handleMessage_skipsEmpty(cbs, message) ==
    IF IsArray(message) /\ message.a # <<>> THEN Emit(cbs, "onScanSignal", message)
    ELSE IF Nullish(message) THEN Throws
    ELSE LET type == Get(message, "type")
             data == Get(message, "data")
         IN  CASE type = Str(<<"scan_signal">>) ->
                    IF In("data", message) /\ IsArray(data)
                    THEN Emit(cbs, "onScanSignal", data)
                    ELSE Done(<<>>)
               [] type = Str(<<"error">>) ->
                    Emit(cbs, "onError", ErrorArgument(data))
               [] OTHER -> Done(<<>>)

\* WebSocketClientService.handleMessage (websocketClient.ts)
WebSocketClientService_handleMessage(cbs, message) ==
    IF IsArray(message) THEN Emit(cbs, "onScanSignal", message)
    ELSE IF Nullish(message) THEN Throws
    ELSE LET type == Get(message, "type")
             data == Get(message, "data")
         IN  CASE type = Str(<<"scan_signal">>) ->
                    IF In("data", message) /\ IsArray(data)
                    THEN Emit(cbs, "onScanSignal", data)
                    ELSE Done(<<>>)
               [] type = Str(<<"error">>) ->
                    Emit(cbs, "onError", ErrorArgument(data))
               [] OTHER -> Done(<<>>)

\* handleMessage of the service of channel ch
Dispatch(ch, cbs, message) ==
    IF ch = "account" THEN WebSocketService_handleMessage(cbs, message)
    ELSE WebSocketClientService_handleMessage(cbs, message)

\* The handler without its try/catch.
Received_noCatch(ch, cbs, f) ==
    IF ~f.ok THEN Throws ELSE Dispatch(ch, cbs, f.value)

\* ws.onmessage of either service: JSON.parse and handleMessage inside
\* try/catch; what was invoked before a throw stays invoked.
Received(ch, cbs, f) ==
    IF ~f.ok THEN Done(<<>>)
    ELSE [Dispatch(ch, cbs, f.value) EXCEPT !.threw = FALSE]

\* No frame.
NoFrame == [ok |-> FALSE, value |-> Undefined]

\* The normalizer variables while no frame is being followed.
NormalizerOff ==
    /\ channel = "client"
    /\ registered = {}
    /\ inbound = NoFrame
    /\ delivered = <<>>
    /\ escaped = FALSE
    /\ phase = "off"

\* ------------------------------------- JavaScript numbers (IEEE 754 binary64)

\* A non-negative Number is [m, e]: the integer m times 2^e, with m written
\* in digits of base Radix from the lowest.  Every operation computes the exact
\* result and rounds it to nearest, ties to even, at 53 significant bits.
Precision == 53
DigitBits == 13
Radix == 2 ^ DigitBits
\* Binary digits a quotient is computed to before rounding: past the guard digit.
QuotientShift == Precision + 17

RECURSIVE Digits(_)
\* The digits of the natural number n.
Digits(n) == IF n = 0 THEN <<>> ELSE <<n % Radix>> \o Digits(n \div Radix)

RECURSIVE Value(_)
\* The natural number with digits b.
Value(b) == IF b = <<>> THEN 0 ELSE b[1] + Radix * Value(Tail(b))

\* b without leading zero digits.
Trim(b) ==
    IF \A i \in 1 .. Len(b) : b[i] = 0 THEN <<>>
    ELSE SubSeq(b, 1, CHOOSE i \in 1 .. Len(b) :
                          b[i] # 0 /\ \A j \in i + 1 .. Len(b) : b[j] = 0)

Zeros(k) == [i \in 1 .. k |-> 0]
Digit(b, i) == IF i \in 1 .. Len(b) THEN b[i] ELSE 0
\* The number of binary digits of b (trimmed).
BitLength(b) ==
    IF b = <<>> THEN 0
    ELSE (Len(b) - 1) * DigitBits
         + (CHOOSE k \in 1 .. DigitBits : 2 ^ (k - 1) <= b[Len(b)] /\ b[Len(b)] < 2 ^ k)

RECURSIVE AddLoop(_, _, _, _)
AddLoop(a, b, i, c) ==
    IF i > Len(a) /\ i > Len(b) THEN Digits(c)
    ELSE LET t == Digit(a, i) + Digit(b, i) + c
         IN  <<t % Radix>> \o AddLoop(a, b, i + 1, t \div Radix)
\* a + b
Add(a, b) == Trim(AddLoop(a, b, 1, 0))

RECURSIVE SubLoop(_, _, _, _)
SubLoop(a, b, i, c) ==
    IF i > Len(a) THEN <<>>
    ELSE LET t == Digit(a, i) - Digit(b, i) - c
         IN  <<(t + Radix) % Radix>> \o SubLoop(a, b, i + 1, IF t < 0 THEN 1 ELSE 0)
\* a - b, for a >= b
Sub(a, b) == Trim(SubLoop(a, b, 1, 0))

RECURSIVE MulLoop(_, _, _, _)
MulLoop(b, n, i, c) ==
    IF i > Len(b) THEN Digits(c)
    ELSE LET t == b[i] * n + c
         IN  <<t % Radix>> \o MulLoop(b, n, i + 1, t \div Radix)
\* b * n, for a natural number n <= Radix
Mul(b, n) == Trim(MulLoop(b, n, 1, 0))

RECURSIVE DivLoop(_, _, _, _)
DivLoop(b, n, i, r) ==
    IF i = 0 THEN [q |-> <<>>, r |-> r]
    ELSE LET t == Radix * r + b[i]
             rest == DivLoop(b, n, i - 1, t % n)
         IN  [q |-> Append(rest.q, t \div n), r |-> rest.r]
\* b divided by the natural number n, 0 < n <= Radix: quotient and remainder
Div(b, n) ==
    LET d == DivLoop(b, n, Len(b), 0) IN [q |-> Trim(d.q), r |-> d.r]

\* b * 2^s
ShiftLeft(b, s) == Trim(Zeros(s \div DigitBits) \o Mul(b, 2 ^ (s % DigitBits)))

\* b divided by 2^s, s > 0: the quotient, the binary digit below it (guard)
\* and whether anything lies below that digit (rest).
ShiftRight(b, s) ==
    LET whole == (s - 1) \div DigitBits
        part == s - whole * DigitBits
        d == Div(SubSeq(b, whole + 1, Len(b)), 2 ^ part)
    IN  [q |-> d.q,
         guard |-> d.r >= 2 ^ (part - 1),
         rest |-> d.r % (2 ^ (part - 1)) # 0 \/ \E i \in 1 .. whole : Digit(b, i) # 0]

\* The exact value b * 2^e, plus something below its last digit when sticky,
\* rounded to nearest, ties to even.
RoundNearestEven(b, e, sticky) ==
    IF BitLength(b) <= Precision THEN [m |-> b, e |-> e]
    ELSE LET s == BitLength(b) - Precision
             d == ShiftRight(b, s)
             up == d.guard /\ (d.rest \/ sticky \/ d.q[1] % 2 = 1)
         IN  [m |-> IF up THEN Add(d.q, <<1>>) ELSE d.q, e |-> e + s]

\* The Number of the natural number n.
Number(n) == [m |-> Digits(n), e |-> 0]
\* The integer x * 2^(-e), for e <= x.e
Scaled(x, e) == ShiftLeft(x.m, x.e - e)

\* n / d for natural numbers n and d > 0
Divide(n, d) ==
    LET r == Div(ShiftLeft(Digits(n), QuotientShift), d)
    IN  RoundNearestEven(r.q, 0 - QuotientShift, r.r # 0)
\* x * n for a natural number n
Times(x, n) == RoundNearestEven(Mul(x.m, n), x.e, FALSE)
\* x / n for a natural number n > 0
Over(x, n) ==
    LET r == Div(ShiftLeft(x.m, QuotientShift), n)
    IN  RoundNearestEven(r.q, x.e - QuotientShift, r.r # 0)
\* n + x for a natural number n
Plus(n, x) ==
    LET e == IF x.e < 0 THEN x.e ELSE 0
    IN  RoundNearestEven(Add(Scaled(Number(n), e), Scaled(x, e)), e, FALSE)
\* x - n for a natural number n <= x
Minus(x, n) ==
    LET e == IF x.e < 0 THEN x.e ELSE 0
    IN  RoundNearestEven(Sub(Scaled(x, e), Scaled(Number(n), e)), e, FALSE)
\* Math.floor(x)
Floor(x) ==
    IF x.e >= 0 THEN Value(Scaled(x, 0))
    ELSE Value(ShiftRight(x.m, 0 - x.e).q)

\* a < b, for trimmed digit sequences
Less(a, b) ==
    \/ Len(a) < Len(b)
    \/ /\ Len(a) = Len(b)
       /\ \E i \in 1 .. Len(a) :
             a[i] < b[i] /\ \A j \in i + 1 .. Len(a) : a[j] = b[j]

RECURSIVE LongMulLoop(_, _, _)
LongMulLoop(a, b, i) ==
    IF i > Len(b) THEN <<>>
    ELSE Add(Mul(a, b[i]), <<0>> \o LongMulLoop(a, b, i + 1))
\* a * b
LongMul(a, b) == Trim(LongMulLoop(a, b, 1))

\* A Number of either sign: neg tells a negative one, [m, e] is its magnitude.
Signed(x) == [neg |-> FALSE, m |-> x.m, e |-> x.e]
Negated(x) == [x EXCEPT !.neg = x.m # <<>> /\ ~x.neg]
WithSign(neg, x) == [neg |-> neg /\ x.m # <<>>, m |-> x.m, e |-> x.e]

\* x + y
Sum(x, y) ==
    LET e == IF x.e < y.e THEN x.e ELSE y.e
        a == Scaled(x, e)
        b == Scaled(y, e)
    IN  WithSign(IF x.neg = y.neg \/ ~Less(a, b) THEN x.neg ELSE y.neg,
                 RoundNearestEven(IF x.neg = y.neg THEN Add(a, b)
                                  ELSE IF Less(a, b) THEN Sub(b, a)
                                  ELSE Sub(a, b),
                                  e, FALSE))
\* x - y
Difference(x, y) == Sum(x, Negated(y))
\* x * y
Product(x, y) ==
    WithSign(x.neg # y.neg, RoundNearestEven(LongMul(x.m, y.m), x.e + y.e, FALSE))
\* x < y
LessThan(x, y) ==
    LET d == Difference(x, y) IN d.neg

\* -------------------------------------------------- the chart (SignalChart)

\* Candles of a dataset.
MaxCandles == 3

\* selectedIndex === null
NoSelection == 0 - 1
\* data === null
NoData == [symbol |-> <<>>, n |-> 0 - 1]
\* A symbol is a string of characters.  symbolList, and a symbol outside it.
SymbolLists == {<<>>, << <<"A">>, <<"B">>, <<"C">> >>}
Symbols == {<<"A">>, <<"B">>, <<"C">>, <<"D">>}
\* What the user can have typed into the symbol field.
Typed == {<<>>, <<" ">>, <<"a">>, <<" ", "b">>, <<"c", " ">>, <<"D">>}
\* window.innerWidth and the width of the canvas container.
Viewports ==
    {[innerWidth |-> 390, width |-> 374],
     [innerWidth |-> 1440, width |-> 1300]}

Min(i, j) == IF i <= j THEN i ELSE j

\* const isMobile = window.innerWidth < 768
isMobile(v) == v.innerWidth < 768
\* canvas.width = maxWidth
canvasWidth(v) == IF isMobile(v) THEN v.width - 16 ELSE Min(1200, v.width - 32)
paddingLeft(v) == IF isMobile(v) THEN 40 ELSE 80
paddingRight(v) == IF isMobile(v) THEN 50 ELSE 100
chartWidth(v) == canvasWidth(v) - paddingLeft(v) - paddingRight(v)

\* drawChart: const x = padding.left + (index / candles.length) * chartWidth
candleX(v, N, index) == Plus(paddingLeft(v), Times(Divide(index, N), chartWidth(v)))

\* A point of the canvas: the x at which candle k of the dataset is drawn, or
\* a whole pixel px.
CenterOf(k) == [kind |-> "center", k |-> k, px |-> 0]
Pixel(px) == [kind |-> "pixel", k |-> 0 - 1, px |-> px]
Points(v, N) ==
    {CenterOf(k) : k \in 0 .. N - 1}
    \cup {Pixel(0), Pixel(paddingLeft(v) + chartWidth(v) \div 2),
          Pixel(paddingLeft(v) + chartWidth(v))}

\* handleCanvasClick: Math.floor(((x - paddingLeft) / chartWidth) * data.open.length)
\* for x = e.clientX - rect.left at the point p.  Left of the chart area the
\* value is negative: it fails the range test whatever it is.
clickIndex(v, N, p) ==
    IF p.kind = "pixel" /\ p.px < paddingLeft(v) THEN 0 - 1
    ELSE Floor(Times(Over(Minus(IF p.kind = "center" THEN candleX(v, N, p.k)
                                ELSE Number(p.px),
                                paddingLeft(v)),
                          chartWidth(v)), N))

\* clickIndex, computed once for every layout, dataset size and point.
ClickIndexTable ==
    [v \in Viewports |->
        [N \in 1 .. MaxCandles |-> [p \in Points(v, N) |-> clickIndex(v, N, p)]]]

\* editingSymbol.trim()
RECURSIVE trim(_)
trim(text) ==
    IF text # <<>> /\ Head(text) = " " THEN trim(Tail(text))
    ELSE IF text # <<>> /\ text[Len(text)] = " " THEN trim(SubSeq(text, 1, Len(text) - 1))
    ELSE text
\* .toUpperCase()
toUpperCase(text) ==
    [i \in 1 .. Len(text) |->
        CASE text[i] = "a" -> "A" [] text[i] = "b" -> "B" [] text[i] = "c" -> "C"
          [] text[i] = "d" -> "D" [] OTHER -> text[i]]

\* symbolList.indexOf(s), counted from 1; 0 when absent
indexOf(list, s) ==
    IF \E i \in 1 .. Len(list) : list[i] = s
    THEN CHOOSE i \in 1 .. Len(list) : list[i] = s /\ \A j \in 1 .. i - 1 : list[j] # s
    ELSE 0

\* The chart as one record: the props, the state and the fetches in flight,
\* then what the step did: the index a click computed, and whether loadData()
\* was called.
Chart ==
    [symbol |-> symbol, symbolList |-> symbolList, currentSymbol |-> currentSymbol,
     selectedIndex |-> selectedIndex, data |-> chartData, requests |-> requests,
     index |-> 0 - 1, started |-> FALSE]

\* loadData(): the request for the candles of currentSymbol goes out.
loadData(c) == [c EXCEPT !.requests = @ \cup {c.currentSymbol}, !.started = TRUE]

\* setCurrentSymbol(s) and onSymbolChange(s), followed by the render and its
\* effects: the parent passes s back as the symbol prop, and the
\* [currentSymbol, interval] effect calls loadData().
changeSymbol(c, s) == loadData([c EXCEPT !.currentSymbol = s, !.symbol = s])

neighbour_clamped(c, by) ==
    LET currentIndex == indexOf(c.symbolList, c.currentSymbol)
    IN  IF by < 0
        THEN IF currentIndex = 1 THEN 1 ELSE currentIndex - 1
        ELSE IF currentIndex = Len(c.symbolList) THEN currentIndex ELSE currentIndex + 1

\* The symbol before (by = -1) or after (by = 1) the current one, wrapping.
neighbour(c, by) ==
    LET currentIndex == indexOf(c.symbolList, c.currentSymbol)
    IN  IF by < 0
        THEN IF currentIndex = 1 THEN Len(c.symbolList) ELSE currentIndex - 1
        ELSE IF currentIndex = Len(c.symbolList) THEN 1 ELSE currentIndex + 1

\* handleKeyDown, for the arrow keys and any other key but Escape
handleKeyDown(c, key) ==
    IF key \in {"ArrowLeft", "ArrowRight"}
    THEN IF c.data = NoData \/ c.data.n = 0 THEN c
         ELSE IF key = "ArrowLeft"
         THEN IF c.selectedIndex = NoSelection
              THEN [c EXCEPT !.selectedIndex = c.data.n - 1]
              ELSE IF c.selectedIndex > 0 THEN [c EXCEPT !.selectedIndex = @ - 1]
              ELSE c
         ELSE IF c.selectedIndex = NoSelection
              THEN [c EXCEPT !.selectedIndex = 0]
              ELSE IF c.selectedIndex < c.data.n - 1 THEN [c EXCEPT !.selectedIndex = @ + 1]
              ELSE c
    ELSE IF c.symbolList = <<>> \/ indexOf(c.symbolList, c.currentSymbol) = 0 THEN c
    ELSE LET currentIndex == indexOf(c.symbolList, c.currentSymbol)
             newIndex == CASE key = "ArrowUp" -> neighbour(c, 0 - 1)
                           [] key = "ArrowDown" -> neighbour(c, 1)
                           [] OTHER -> currentIndex
         IN  IF newIndex # currentIndex
             THEN changeSymbol(c, c.symbolList[newIndex])
             ELSE c

\* handleTouchEnd after a touch that started outside the canvas: a horizontal
\* swipe to the left (deltaX > 0) or to the right, or a movement that is none.
handleTouchEnd(c, swipe) ==
    IF c.symbolList = <<>> \/ swipe = "none" THEN c
    ELSE IF indexOf(c.symbolList, c.currentSymbol) = 0 THEN c
    ELSE LET currentIndex == indexOf(c.symbolList, c.currentSymbol)
             newIndex == IF swipe = "left" THEN neighbour(c, 0 - 1) ELSE neighbour(c, 1)
         IN  IF newIndex # currentIndex
             THEN [changeSymbol(c, c.symbolList[newIndex]) EXCEPT
                       !.selectedIndex = NoSelection]
             ELSE c

\* handleSymbolKeyDown, key Enter, with editingSymbol = text
handleSymbolKeyDown(c, text) ==
    LET newSymbol == toUpperCase(trim(text))
    IN  IF newSymbol # <<>> /\ newSymbol # c.currentSymbol
        THEN [changeSymbol(c, newSymbol) EXCEPT !.selectedIndex = NoSelection]
        ELSE c

\* handleCanvasClick (and handleCanvasTouch, the same computation) at point p
handleCanvasClick(c, v, p) ==
    IF c.data = NoData THEN c
    ELSE IF c.data.n = 0 THEN c
    ELSE LET index == ClickIndexTable[v][c.data.n][p]
         IN  IF index >= 0 /\ index < c.data.n
             THEN [c EXCEPT !.index = index,
                            !.selectedIndex = IF index = c.selectedIndex
                                              THEN NoSelection ELSE index]
             ELSE [c EXCEPT !.index = index]

\* The parent renders the chart with another symbol prop: the [symbol] effect
\* sets currentSymbol, the [currentSymbol, interval] effect calls loadData().
symbolProp(c, s) ==
    IF s = c.currentSymbol THEN [c EXCEPT !.symbol = s]
    ELSE loadData([c EXCEPT !.symbol = s, !.currentSymbol = s])

\* A getCandles request resolves with n candles: setData(response).
resolved(c, s, n) ==
    [c EXCEPT !.requests = @ \ {s}, !.data = [symbol |-> s, n |-> n]]

\* A getCandles request fails: setError(...), the data stay.
rejected(c, s) == [c EXCEPT !.requests = @ \ {s}]

\* What the last step of the chart was.
NoChartEvent ==
    [op |-> "none", point |-> Pixel(0), index |-> 0 - 1,
     symbolChanged |-> FALSE, fetchStarted |-> FALSE]

\* The chart variables while no chart is mounted.
ChartOff ==
    /\ viewport = [innerWidth |-> 390, width |-> 374]
    /\ symbol = <<"A">>
    /\ symbolList = <<>>
    /\ currentSymbol = <<"A">>
    /\ selectedIndex = NoSelection
    /\ chartData = NoData
    /\ requests = {}
    /\ chartLast = NoChartEvent

\* ------------------------------------------------------ drawChart's scales

\* Candles of a dataset that is drawn.
MaxDrawn == 8

Max(i, j) == IF i >= j THEN i ELSE j

\* The prices of a dataset: 0.1, 100, 101, 2^50 and 2^51.
Prices ==
    {Signed(Divide(1, 10)), Signed(Number(100)), Signed(Number(101)),
     Signed([m |-> <<1>>, e |-> 50]), Signed([m |-> <<1>>, e |-> 51])}
\* A candle, as far as the scales look at it: low <= high.
Candles == {c \in [low : Prices, high : Prices] : ~LessThan(c.high, c.low)}
\* The datasets drawn: every dataset of one or two candles, and the datasets
\* of up to MaxDrawn equal candles.
Datasets ==
    {<<c>> : c \in Candles}
    \cup {<<c, d>> : c \in Candles, d \in Candles}
    \cup {[i \in 1 .. N |-> c] : N \in 3 .. MaxDrawn, c \in Candles}

\* Math.min(...lowValues)
minPrice(cs) ==
    CHOOSE p \in {cs[i].low : i \in 1 .. Len(cs)} :
        \A i \in 1 .. Len(cs) : ~LessThan(cs[i].low, p)
\* Math.max(...highValues)
maxPrice(cs) ==
    CHOOSE p \in {cs[i].high : i \in 1 .. Len(cs)} :
        \A i \in 1 .. Len(cs) : ~LessThan(p, cs[i].high)

\* const priceRange = maxPrice - minPrice || 1
priceRange_noDefault(min, max) == Difference(max, min)
priceRange(min, max) ==
    LET range == Difference(max, min)
    IN  IF range.m = <<>> THEN Signed(Number(1)) ELSE range
\* const pricePadding = priceRange * 0.1
pricePadding(range) == Product(range, Signed(Divide(1, 10)))
\* const minPriceScaled = minPrice - pricePadding
minPriceScaled(min, padding) == Difference(min, padding)
\* const maxPriceScaled = maxPrice + pricePadding
maxPriceScaled(max, padding) == Sum(max, padding)
\* const scaledRange = maxPriceScaled - minPriceScaled
scaledRange(minScaled, maxScaled) == Difference(maxScaled, minScaled)

\* const minLabelWidth = isMobile ? 50 : 60
minLabelWidth(v) == IF isMobile(v) THEN 50 ELSE 60
\* const maxLabels = Math.floor(chartWidth / minLabelWidth); at least 1 in
\* every layout of Viewports
maxLabels(v) == Floor(Divide(chartWidth(v), minLabelWidth(v)))
\* const timeStep = Math.max(1, Math.floor(candles.length / maxLabels))
timeStep(v, N) == Max(1, Floor(Divide(N, maxLabels(v))))

\* What drawChart computed, or nothing yet.
NoDrawing ==
    [done |-> FALSE, timeStep |-> 0, priceRange |-> Signed(Number(0)),
     scaledRange |-> Signed(Number(0))]
\* drawChart, for the candles cs on a canvas of the layout v
drawChart(v, cs) ==
    LET min == minPrice(cs)
        max == maxPrice(cs)
        range == priceRange(min, max)
        padding == pricePadding(range)
    IN  [done |-> TRUE, timeStep |-> timeStep(v, Len(cs)), priceRange |-> range,
         scaledRange |-> scaledRange(minPriceScaled(min, padding),
                                     maxPriceScaled(max, padding))]

\* The drawing variables while nothing is drawn.
DrawOff ==
    /\ candles = <<>>
    /\ drawn = NoDrawing

\* ------------------------------------------------- the state as one record

\* The fields a handler reads and writes, the sockets and timers it acts on,
\* and what it did: callbacks invoked (calls), whether it created a socket,
\* whether it called close() on the socket in the handle.
World ==
    [ws |-> ws, reconnectAttempts |-> reconnectAttempts, callbacks |-> callbacks,
     isConnecting |-> isConnecting, shouldReconnect |-> shouldReconnect,
     orphans |-> orphans, timers |-> timers,
     calls |-> <<>>, created |-> FALSE, closed |-> FALSE]

\* WebSocket.readyState of a socket in state st.
readyState(st) ==
    IF st \in {"CLOSING_FAIL", "CLOSING"} THEN "CLOSING" ELSE st

\* The sockets that can still deliver events.
Sockets(w) ==
    (IF w.ws = NoSocket THEN 0 ELSE 1)
    + w.orphans[<<"CONNECTING", FALSE>>] + w.orphans[<<"CONNECTING", TRUE>>]
    + w.orphans[<<"OPEN", FALSE>>] + w.orphans[<<"OPEN", TRUE>>]
    + w.orphans[<<"CLOSING_FAIL", FALSE>>] + w.orphans[<<"CLOSING_FAIL", TRUE>>]
    + w.orphans[<<"CLOSING", FALSE>>] + w.orphans[<<"CLOSING", TRUE>>]

\* The state of a socket after close() is called on it.
AfterClose(st) ==
    IF st = "CONNECTING" THEN "CLOSING_FAIL"
    ELSE IF st = "OPEN" THEN "CLOSING" ELSE st

\* this.ws.close()
close(w) == [w EXCEPT !.ws = AfterClose(@), !.closed = TRUE]

\* The handle lets go of its socket: this.ws is assigned null or a new socket.
\* A socket that is CLOSED delivers no event any more.
Release(w, dropped) ==
    IF w.ws \in {NoSocket, "CLOSED"} THEN w
    ELSE [w EXCEPT !.orphans[<<w.ws, dropped>>] = @ + 1]

\* this.callbacks.key?.(msg)
invoke(w, key, msg) ==
    IF w.callbacks[key] = None THEN w
    ELSE [w EXCEPT !.calls = Append(@, [key |-> key, fn |-> w.callbacks[key], msg |-> msg])]

\* { ...a, ...b }
Merge(a, b) == [k \in Keys |-> IF b[k] # None THEN b[k] ELSE a[k]]

updateCallbacks(w, cbs) == [w EXCEPT !.callbacks = Merge(w.callbacks, cbs)]

\* PastGuards without the readyState check of the first early return.
PastGuards_flagOnly(w) == ~w.isConnecting

\* connect() goes past its two early returns.
PastGuards(w) ==
    /\ ~(w.ws # NoSocket /\ readyState(w.ws) = "OPEN")
    /\ ~w.isConnecting

\* connect() that gives the new attempt a fresh retry budget.
connect_freshBudget(w, cbs, tok, throws) ==
    IF ~PastGuards(w) THEN updateCallbacks(w, cbs)
    ELSE LET w1 == [updateCallbacks(w, cbs) EXCEPT !.shouldReconnect = TRUE,
                                                  !.isConnecting = TRUE,
                                                  !.reconnectAttempts = 0]
         IN  IF ~tok
             THEN invoke([w1 EXCEPT !.isConnecting = FALSE], "onError", MsgNoToken)
             ELSE IF throws
             THEN invoke([w1 EXCEPT !.isConnecting = FALSE], "onError", MsgCreate)
             ELSE [Release(w1, FALSE) EXCEPT !.ws = "CONNECTING", !.created = TRUE]

\* connect() that leaves the connecting flag set when the token is missing.
connect_flagStuck(w, cbs, tok, throws) ==
    IF ~PastGuards(w) THEN updateCallbacks(w, cbs)
    ELSE LET w1 == [updateCallbacks(w, cbs) EXCEPT !.shouldReconnect = TRUE,
                                                  !.isConnecting = TRUE]
         IN  IF ~tok
             THEN invoke(w1, "onError", MsgNoToken)
             ELSE IF throws
             THEN invoke([w1 EXCEPT !.isConnecting = FALSE], "onError", MsgCreate)
             ELSE [Release(w1, FALSE) EXCEPT !.ws = "CONNECTING", !.created = TRUE]

\* connect(callbacks), with the token read from localStorage (tok) and whether
\* the WebSocket constructor throws (throws).
connect(w, cbs, tok, throws) ==
    IF ~PastGuards(w) THEN updateCallbacks(w, cbs)
    ELSE LET w1 == [updateCallbacks(w, cbs) EXCEPT !.shouldReconnect = TRUE,
                                                  !.isConnecting = TRUE]
         IN  IF ~tok
             THEN invoke([w1 EXCEPT !.isConnecting = FALSE], "onError", MsgNoToken)
             ELSE IF throws
             THEN invoke([w1 EXCEPT !.isConnecting = FALSE], "onError", MsgCreate)
             ELSE [Release(w1, FALSE) EXCEPT !.ws = "CONNECTING", !.created = TRUE]

\* onopen without the test for a cancelled or superseded attempt.
onopen_unchecked(w, active) ==
    invoke([w EXCEPT !.isConnecting = FALSE, !.reconnectAttempts = 0],
           "onConnect", NoMsg)

\* ws.onopen of a socket; active: it is the one in the handle (this.ws === wsRef)
onopen(w, active) ==
    IF ~active \/ ~w.shouldReconnect
    THEN IF w.ws # NoSocket THEN close(w) ELSE w
    ELSE invoke([w EXCEPT !.isConnecting = FALSE, !.reconnectAttempts = 0],
                "onConnect", NoMsg)

\* handleMessage, by the kind of the decoded frame
handleMessage(w, frame) ==
    CASE frame = "scan_signal" -> invoke(w, "onScanSignal", NoMsg)
      [] frame = "error" -> invoke(w, "onError", MsgFrame)
      [] OTHER -> w

\* onmessage that treats a decode failure as a transport error.
onmessage_failsOnGarbage(w, frame) ==
    IF frame = "malformed"
    THEN invoke([w EXCEPT !.isConnecting = FALSE], "onError", MsgTransport)
    ELSE handleMessage(w, frame)

\* ws.onmessage: a frame that fails to decode is caught and dropped.
onmessage(w, frame) ==
    IF frame = "malformed" THEN w ELSE handleMessage(w, frame)

\* ws.onerror of a socket
onerror(w) ==
    invoke([w EXCEPT !.isConnecting = FALSE], "onError", MsgTransport)

\* onclose that schedules the retry without counting the attempt.
onclose_uncounted(w, active, code) ==
    IF ~active THEN w
    ELSE LET w1 == invoke([w EXCEPT !.isConnecting = FALSE, !.ws = NoSocket],
                          "onDisconnect", NoMsg)
         IN  IF code = POLICY_VIOLATION
             THEN invoke([w1 EXCEPT !.shouldReconnect = FALSE], "onError", MsgAuthFailed)
             ELSE IF w1.shouldReconnect /\ w1.reconnectAttempts < maxReconnectAttempts
             THEN [w1 EXCEPT !.timers = @ + 1]
             ELSE IF w1.reconnectAttempts >= maxReconnectAttempts
             THEN invoke([w1 EXCEPT !.shouldReconnect = FALSE], "onError", MsgMaxAttempts)
             ELSE w1

\* onclose with the retry test off by one (<= for <).
onclose_offByOne(w, active, code) ==
    IF ~active THEN w
    ELSE LET w1 == invoke([w EXCEPT !.isConnecting = FALSE, !.ws = NoSocket],
                          "onDisconnect", NoMsg)
         IN  IF code = POLICY_VIOLATION
             THEN invoke([w1 EXCEPT !.shouldReconnect = FALSE], "onError", MsgAuthFailed)
             ELSE IF w1.shouldReconnect /\ w1.reconnectAttempts <= maxReconnectAttempts
             THEN [w1 EXCEPT !.reconnectAttempts = @ + 1, !.timers = @ + 1]
             ELSE IF w1.reconnectAttempts >= maxReconnectAttempts
             THEN invoke([w1 EXCEPT !.shouldReconnect = FALSE], "onError", MsgMaxAttempts)
             ELSE w1

\* onclose whose terminal branch reports the error and leaves shouldReconnect.
onclose_keepsFlag(w, active, code) ==
    IF ~active THEN w
    ELSE LET w1 == invoke([w EXCEPT !.isConnecting = FALSE, !.ws = NoSocket],
                          "onDisconnect", NoMsg)
         IN  IF code = POLICY_VIOLATION
             THEN invoke([w1 EXCEPT !.shouldReconnect = FALSE], "onError", MsgAuthFailed)
             ELSE IF w1.shouldReconnect /\ w1.reconnectAttempts < maxReconnectAttempts
             THEN [w1 EXCEPT !.reconnectAttempts = @ + 1, !.timers = @ + 1]
             ELSE IF w1.reconnectAttempts >= maxReconnectAttempts
             THEN invoke(w1, "onError", MsgMaxAttempts)
             ELSE w1

\* onclose that tests the close code only after the retry branch.
onclose_retryFirst(w, active, code) ==
    IF ~active THEN w
    ELSE LET w1 == invoke([w EXCEPT !.isConnecting = FALSE, !.ws = NoSocket],
                          "onDisconnect", NoMsg)
         IN  IF w1.shouldReconnect /\ w1.reconnectAttempts < maxReconnectAttempts
             THEN [w1 EXCEPT !.reconnectAttempts = @ + 1, !.timers = @ + 1]
             ELSE IF code = POLICY_VIOLATION
             THEN invoke([w1 EXCEPT !.shouldReconnect = FALSE], "onError", MsgAuthFailed)
             ELSE IF w1.reconnectAttempts >= maxReconnectAttempts
             THEN invoke([w1 EXCEPT !.shouldReconnect = FALSE], "onError", MsgMaxAttempts)
             ELSE w1

\* ws.onclose of a socket, with event.code; active: it is the one in the handle
\* (this.ws === wsRef)
onclose(w, active, code) ==
    IF ~active THEN w
    ELSE LET w1 == invoke([w EXCEPT !.isConnecting = FALSE, !.ws = NoSocket],
                          "onDisconnect", NoMsg)
         IN  IF code = POLICY_VIOLATION
             THEN invoke([w1 EXCEPT !.shouldReconnect = FALSE], "onError", MsgAuthFailed)
             ELSE IF w1.shouldReconnect /\ w1.reconnectAttempts < maxReconnectAttempts
             THEN [w1 EXCEPT !.reconnectAttempts = @ + 1, !.timers = @ + 1]
             ELSE IF w1.reconnectAttempts >= maxReconnectAttempts
             THEN invoke([w1 EXCEPT !.shouldReconnect = FALSE], "onError", MsgMaxAttempts)
             ELSE w1

\* The timer callback reusing the token of the attempt that scheduled it (that
\* attempt created a socket, so its token was present).
reconnectTimer_cachedToken(w, tok, throws) ==
    connect(w, w.callbacks, TRUE, throws)

\* The setTimeout callback scheduled by onclose.
reconnectTimer(w, tok, throws) ==
    IF tok THEN connect(w, w.callbacks, tok, throws)
    ELSE invoke([w EXCEPT !.shouldReconnect = FALSE], "onError", MsgExpired)

\* disconnect() that discards a socket only after closing it: one that is
\* already CLOSING stays in the handle.
disconnect_keepsClosing(w) ==
    LET w1 == [w EXCEPT !.shouldReconnect = FALSE, !.isConnecting = FALSE]
        w2 == IF w1.ws = NoSocket \/ readyState(w1.ws) \notin {"CONNECTING", "OPEN"}
              THEN w1
              ELSE [Release(close(w1), TRUE) EXCEPT !.ws = NoSocket]
    IN  [w2 EXCEPT !.callbacks = NoCallbacks]

\* disconnect()
disconnect(w) ==
    LET w1 == [w EXCEPT !.shouldReconnect = FALSE, !.isConnecting = FALSE]
        w2 == IF w1.ws = NoSocket THEN w1
              ELSE [Release(IF readyState(w1.ws) \in {"CONNECTING", "OPEN"}
                            THEN close(w1) ELSE w1, TRUE)
                    EXCEPT !.ws = NoSocket]
    IN  [w2 EXCEPT !.callbacks = NoCallbacks]

\* ----------------------------------------------------------------- actions

\* op: the step; active: the event's socket was the one in the handle (for
\* disconnect: the handle was not null); disc: the socket had been dropped by
\* disconnect(); code, err: the close code and whether an error event came with
\* it (for connect and timer: the constructor threw); arg: the callbacks passed;
\* frame: the frame of a message event;
\* calls: the callbacks invoked, in order; created: a socket was created;
\* closedHandle: close() was called on the socket in the handle; orphaned: the
\* new socket replaced one that was CONNECTING or OPEN.
NoEvent ==
    [op |-> "init", active |-> FALSE, disc |-> FALSE,
     code |-> 0, err |-> FALSE, arg |-> NoCallbacks, frame |-> None,
     calls |-> <<>>, created |-> FALSE, closedHandle |-> FALSE, orphaned |-> FALSE]

\* The step's result becomes the state; info says which step it was.
Commit(result, info) ==
    \E w \in {result} :
        /\ ws' = w.ws
        /\ reconnectAttempts' = w.reconnectAttempts
        /\ callbacks' = w.callbacks
        /\ isConnecting' = w.isConnecting
        /\ shouldReconnect' = w.shouldReconnect
        /\ orphans' = w.orphans
        /\ timers' = w.timers
        /\ stopped' = CASE info.op = "connect" -> {}
                        [] info.op = "disconnect" -> stopped \cup {"disconnect"}
                        [] info.op = "close" /\ info.active /\ info.code = POLICY_VIOLATION ->
                               stopped \cup {"auth"}
                        [] info.op = "timer" /\ ~token -> stopped \cup {"auth"}
                        [] OTHER -> stopped
        /\ last' = [info EXCEPT !.calls = w.calls,
                                !.created = w.created,
                                !.closedHandle = w.closed,
                                !.orphaned = w.created /\ ws \in {"CONNECTING", "OPEN"}]
        /\ UNCHANGED <<normalizerVars, chartVars, drawVars>>

Init ==
    /\ ws = NoSocket
    /\ reconnectAttempts = 0
    /\ callbacks = NoCallbacks
    /\ isConnecting = FALSE
    /\ shouldReconnect = TRUE
    /\ orphans = NoOrphans
    /\ timers = 0
    /\ token \in BOOLEAN
    /\ stopped = {}
    /\ last = NoEvent
    /\ NormalizerOff
    /\ ChartOff
    /\ DrawOff

\* The call reaches new WebSocket(...), so there must be room for the socket.
Creates(throws) == PastGuards(World) /\ token /\ ~throws

\* The caller invokes connect(cbs).
Connect ==
    \E cbs \in CallbackArgs, throws \in BOOLEAN :
        /\ Creates(throws) => Sockets(World) < MaxLive
        /\ throws => (PastGuards(World) /\ token)
        /\ Commit(connect(World, cbs, token, throws),
                  [NoEvent EXCEPT !.op = "connect", !.arg = cbs, !.err = throws])
        /\ UNCHANGED token

\* The caller invokes disconnect().
Disconnect ==
    /\ Commit(disconnect(World), [NoEvent EXCEPT !.op = "disconnect", !.active = (ws # NoSocket)])
    /\ UNCHANGED token

\* A reconnect timer fires.
TimerFire ==
    \E throws \in BOOLEAN :
        /\ timers > 0
        /\ Creates(throws) => Sockets(World) < MaxLive
        /\ throws => (PastGuards(World) /\ token)
        /\ Commit(reconnectTimer([World EXCEPT !.timers = @ - 1], token, throws),
                  [NoEvent EXCEPT !.op = "timer", !.err = throws])
        /\ UNCHANGED token

\* The event's socket: the one in the handle, or an orphan of some kind.
Event(op, active, disc) == [NoEvent EXCEPT !.op = op, !.active = active, !.disc = disc]

\* The orphan of kind k moves to state st (CLOSED: it is gone).
Moved(w, k, st) ==
    IF st = "CLOSED" THEN [w EXCEPT !.orphans[k] = @ - 1]
    ELSE [w EXCEPT !.orphans[k] = @ - 1, !.orphans[<<st, k[2]>>] = @ + 1]

\* The transport reports open for a socket that is CONNECTING.
TransportOpen ==
    /\ \/ /\ ws = "CONNECTING"
          /\ Commit(onopen([World EXCEPT !.ws = "OPEN"], TRUE), Event("open", TRUE, FALSE))
       \/ \E k \in OrphanKinds :
              /\ k[1] = "CONNECTING"
              /\ orphans[k] > 0
              /\ Commit(onopen(Moved(World, k, "OPEN"), FALSE), Event("open", FALSE, k[2]))
    /\ UNCHANGED token

\* A frame arrives on a socket that is OPEN.
TransportMessage ==
    \E frame \in Frames :
        /\ \/ /\ ws = "OPEN"
              /\ Commit(onmessage(World, frame),
                        [Event("message", TRUE, FALSE) EXCEPT !.frame = frame])
           \/ \E k \in OrphanKinds :
                  /\ k[1] = "OPEN"
                  /\ orphans[k] > 0
                  /\ Commit(onmessage(World, frame),
                            [Event("message", FALSE, k[2]) EXCEPT !.frame = frame])
        /\ UNCHANGED token

\* How the socket in state st can end: the close code, and whether an error
\* event precedes the close event.  A connection that fails (before it opened,
\* or later) ends with an error event and code 1006; an open one is closed by
\* the server with 1000 or 1008; one closed by close() ends with 1005, or with
\* 1008 when the server's close frame was already on its way.
Endings(st) ==
    CASE st \in {"CONNECTING", "CLOSING_FAIL"} ->
            {[code |-> 1006, err |-> TRUE]}
      [] st = "OPEN" ->
            {[code |-> 1000, err |-> FALSE],
             [code |-> POLICY_VIOLATION, err |-> FALSE],
             [code |-> 1006, err |-> TRUE]}
      [] st = "CLOSING" ->
            {[code |-> 1005, err |-> FALSE],
             [code |-> POLICY_VIOLATION, err |-> FALSE]}
      [] OTHER -> {}

\* The close task of a socket: readyState is CLOSED, then the error event (if
\* the connection failed) and the close event.
CloseTask(w, active, e) ==
    onclose(IF e.err THEN onerror(w) ELSE w, active, e.code)

\* A socket is closed.
TransportClose ==
    /\ \/ \E e \in Endings(ws) :
              \E w \in {CloseTask([World EXCEPT !.ws = "CLOSED"], TRUE, e)} :
                  /\ w.timers <= MaxTimers
                  /\ Commit(w, [Event("close", TRUE, FALSE) EXCEPT !.code = e.code, !.err = e.err])
       \/ \E k \in OrphanKinds :
              /\ orphans[k] > 0
              /\ \E e \in Endings(k[1]) :
                     Commit(CloseTask(Moved(World, k, "CLOSED"), FALSE, e),
                            [Event("close", FALSE, k[2]) EXCEPT !.code = e.code, !.err = e.err])
    /\ UNCHANGED token

\* login() stores the token.
Login ==
    /\ ~token
    /\ token' = TRUE
    /\ Commit(World, [NoEvent EXCEPT !.op = "login"])

\* logout(), or a 401 response, removes the token.
Logout ==
    /\ token
    /\ token' = FALSE
    /\ Commit(World, [NoEvent EXCEPT !.op = "logout"])

Next ==
    \/ Connect
    \/ Disconnect
    \/ TimerFire
    \/ TransportOpen
    \/ TransportMessage
    \/ TransportClose
    \/ Login
    \/ Logout

Spec == Init /\ [][Next]_vars

\* The event loop runs every timer callback that is due and delivers the
\* close event of every socket that is closed.
SpecFair == Spec /\ WF_vars(TimerFire) /\ WF_vars(TransportClose)

TypeOK ==
    /\ ws \in (SockStates \ {"CLOSED"}) \cup {NoSocket}
    /\ reconnectAttempts \in Nat
    /\ callbacks \in [Keys -> {"A", "B", None}]
    /\ isConnecting \in BOOLEAN
    /\ shouldReconnect \in BOOLEAN
    /\ orphans \in [OrphanKinds -> 0 .. MaxLive]
    /\ Sockets(World) <= MaxLive
    /\ timers \in 0 .. MaxTimers
    /\ token \in BOOLEAN
    /\ stopped \subseteq {"disconnect", "auth"}

\* ------------------------------------------- the normalizer on single frames

\* Elements of a payload array.
MaxItems == 2

BTCUSDT == Obj([symbol |-> Str(<<"BTCUSDT">>)])
ETHUSDT == Obj([symbol |-> Str(<<"ETHUSDT">>)])
Arrays == {Arr(a) : a \in UNION {[1 .. n -> {BTCUSDT, ETHUSDT}] : n \in 0 .. MaxItems}}
\* The values of the data field, and the frames that are no envelope.
Payloads ==
    Arrays \cup
    {Undefined, Null, Bool(FALSE), Num(0), Num(7), Str(<<>>), Str(<<"oops">>),
     BTCUSDT, Obj(<<>>),
     Obj([message |-> Str(<<"oops">>)]), Obj([message |-> Str(<<>>)]),
     Obj([message |-> Num(7)]),
     Obj([balance |-> Num(0)]), Obj([balance |-> Str(<<"12.5">>)]),
     Obj([balance |-> Null])}
\* The values of the type field: absent, every kind the services name, kinds
\* they recognise by a word, an unknown kind, and values that are no string.
TypeValues ==
    {Undefined, Null, Num(7), Str(<<>>), Arr(<<Str(<<"balance">>)>>),
     Str(<<"bot_status">>), Str(<<"status_update">>), Str(<<"balance">>),
     Str(<<"balance", "_update">>), Str(<<"account", "_update">>),
     Str(<<"position", "s">>), Str(<<"position", "_update">>),
     Str(<<"income_history">>), Str(<<"spot_orders">>), Str(<<"error">>),
     Str(<<"scan_signal">>), Str(<<"my_", "balance">>), Str(<<"sub", "account">>),
     Str(<<"position", "_closed">>), Str(<<"heartbeat">>)}
EventValues ==
    {Undefined, Null, Num(7), Str(<<>>), Str(<<"balance">>), Str(<<"position", "s">>),
     Str(<<"error">>), Str(<<"scan_signal">>), Str(<<"heartbeat">>)}
Envelopes ==
    {Obj([event |-> e, type |-> t, data |-> d]) :
        e \in EventValues, t \in TypeValues, d \in Payloads}
\* The frames: text that does not decode, and every decoded value.
RawFrames ==
    {NoFrame} \cup
    {[ok |-> TRUE, value |-> v] : v \in Envelopes \cup (Payloads \ {Undefined})}

\* The connection of the normalizer's runs: never connected.
ConnectionOff ==
    /\ ws = NoSocket
    /\ reconnectAttempts = 0
    /\ callbacks = NoCallbacks
    /\ isConnecting = FALSE
    /\ shouldReconnect = TRUE
    /\ orphans = NoOrphans
    /\ timers = 0
    /\ token = TRUE
    /\ stopped = {}
    /\ last = NoEvent

\* One of the services, with all, none or only the error callback registered.
NormalizerInit ==
    /\ ConnectionOff
    /\ ChartOff
    /\ DrawOff
    /\ channel \in {"account", "client"}
    /\ registered \in {IF channel = "account" THEN AccountKeys ELSE ClientKeys,
                       {"onError"}, {}}
    /\ inbound = NoFrame
    /\ delivered = <<>>
    /\ escaped = FALSE
    /\ phase = "waiting"

\* The transport delivers a frame: a message event is queued.
Receive ==
    /\ phase = "waiting"
    /\ inbound' \in RawFrames
    /\ delivered' = <<>>
    /\ escaped' = FALSE
    /\ phase' = "received"
    /\ UNCHANGED <<channel, registered, connectionVars, chartVars, drawVars>>

\* ws.onmessage runs on the frame.
Handle ==
    /\ phase = "received"
    /\ \E r \in {Received(channel, registered, inbound)} :
          /\ delivered' = r.calls
          /\ escaped' = r.threw
    /\ phase' = "handled"
    /\ UNCHANGED <<channel, registered, inbound, connectionVars, chartVars, drawVars>>

\* The handler has returned; the service waits for the next message event.
Return ==
    /\ phase = "handled"
    /\ inbound' = NoFrame
    /\ delivered' = <<>>
    /\ escaped' = FALSE
    /\ phase' = "waiting"
    /\ UNCHANGED <<channel, registered, connectionVars, chartVars, drawVars>>

NormalizerNext ==
    \/ Receive
    \/ Handle
    \/ Return

SpecNormalizer == NormalizerInit /\ [][NormalizerNext]_vars

NormalizerTypeOK ==
    /\ channel \in {"account", "client"}
    /\ registered \subseteq AccountKeys \cup ClientKeys
    /\ inbound \in RawFrames
    /\ phase \in {"waiting", "received", "handled"}
    /\ escaped \in BOOLEAN
    /\ Len(delivered) <= 2

\* ------------------------------------------------------ the chart's steps

\* The state after the step that took the chart to c.
ChartCommit(c, op, point) ==
    /\ symbol' = c.symbol
    /\ currentSymbol' = c.currentSymbol
    /\ selectedIndex' = c.selectedIndex
    /\ chartData' = c.data
    /\ requests' = c.requests
    /\ chartLast' = [op |-> op, point |-> point, index |-> c.index,
                     symbolChanged |-> c.currentSymbol # currentSymbol,
                     fetchStarted |-> c.started]
    /\ UNCHANGED <<viewport, symbolList, connectionVars, normalizerVars, drawVars>>

\* The chart is mounted for a symbol: the first render's effects call loadData().
ChartInit ==
    /\ ConnectionOff
    /\ NormalizerOff
    /\ DrawOff
    /\ viewport \in Viewports
    /\ symbolList \in SymbolLists
    /\ symbol \in {<<"A">>, <<"D">>}
    /\ currentSymbol = symbol
    /\ selectedIndex = NoSelection
    /\ chartData = NoData
    /\ requests = {symbol}
    /\ chartLast = NoChartEvent

FetchResolve ==
    \E s \in requests, n \in 0 .. MaxCandles :
        ChartCommit(resolved(Chart, s, n), "resolve", Pixel(0))

FetchReject ==
    \E s \in requests : ChartCommit(rejected(Chart, s), "reject", Pixel(0))

CanvasClick ==
    /\ chartData # NoData
    /\ chartData.n >= 1
    /\ \E p \in Points(viewport, chartData.n) :
          ChartCommit(handleCanvasClick(Chart, viewport, p), "click", p)

KeyDown ==
    \E key \in {"ArrowLeft", "ArrowRight", "ArrowUp", "ArrowDown", "a"} :
        ChartCommit(handleKeyDown(Chart, key), key, Pixel(0))

TouchEnd ==
    \E swipe \in {"left", "right", "none"} :
        ChartCommit(handleTouchEnd(Chart, swipe), swipe, Pixel(0))

SymbolEnter ==
    \E text \in Typed :
        ChartCommit(handleSymbolKeyDown(Chart, text), "enter", Pixel(0))

PropChange ==
    \E s \in Symbols :
        /\ s # symbol
        /\ ChartCommit(symbolProp(Chart, s), "prop", Pixel(0))

ChartNext ==
    \/ FetchResolve
    \/ FetchReject
    \/ CanvasClick
    \/ KeyDown
    \/ TouchEnd
    \/ SymbolEnter
    \/ PropChange

SpecChart == ChartInit /\ [][ChartNext]_vars

ChartTypeOK ==
    /\ viewport \in Viewports
    /\ symbolList \in SymbolLists
    /\ symbol \in Symbols
    /\ currentSymbol \in Symbols
    /\ selectedIndex \in {NoSelection} \cup 0 .. MaxCandles - 1
    /\ chartData \in {NoData} \cup [symbol : Symbols, n : 0 .. MaxCandles]
    /\ requests \subseteq Symbols

\* ----------------------------------------------------- drawing the chart

\* A dataset has arrived and the canvas has not been drawn yet.
DrawInit ==
    /\ ConnectionOff
    /\ NormalizerOff
    /\ candles \in Datasets
    /\ drawn = NoDrawing
    /\ viewport \in Viewports
    /\ symbol = <<"A">>
    /\ symbolList = <<>>
    /\ currentSymbol = <<"A">>
    /\ selectedIndex = NoSelection
    /\ chartData = [symbol |-> <<"A">>, n |-> Len(candles)]
    /\ requests = {}
    /\ chartLast = NoChartEvent

\* The [data, selectedIndex, showMA] effect: the canvas is sized and drawn.
Draw ==
    /\ ~drawn.done
    /\ drawn' = drawChart(viewport, candles)
    /\ UNCHANGED <<candles, connectionVars, normalizerVars, chartVars>>

\* handleResize: the canvas is sized for the new layout and drawn again.
Resize ==
    /\ \E v \in Viewports \ {viewport} :
          /\ viewport' = v
          /\ drawn' = drawChart(v, candles)
    /\ UNCHANGED <<candles, connectionVars, normalizerVars, symbol, symbolList,
                   currentSymbol, selectedIndex, chartData, requests, chartLast>>

DrawNext ==
    \/ Draw
    \/ Resize

SpecDraw == DrawInit /\ [][DrawNext]_vars

\* ------------------------------------------------------------ the claims

\* The sockets on which close() has not been called: CONNECTING or OPEN.
Live ==
    (IF ws \in {"CONNECTING", "OPEN"} THEN 1 ELSE 0)
    + orphans[<<"CONNECTING", FALSE>>] + orphans[<<"CONNECTING", TRUE>>]
    + orphans[<<"OPEN", FALSE>>] + orphans[<<"OPEN", TRUE>>]
Called(l, key, msg) ==
    \E i \in 1 .. Len(l.calls) : l.calls[i].key = key /\ l.calls[i].msg = msg
SocketEvent(l) == l.op \in {"open", "message", "close"}
ActiveClose(l) == l.op = "close" /\ l.active

\* C1: at most one socket created by the service is live (CONNECTING or OPEN
\* with close() not yet called on it), and connect() never stores a new socket
\* over one that is still live.
C1_AtMostOneLive ==
    /\ Live <= 1
    /\ ~last.orphaned

\* C2: an open, close or error event of a socket that is not the one in the
\* handle leaves the handle, the connecting flag, reconnectAttempts and
\* shouldReconnect as they were, calls close() on no socket and schedules no
\* reconnect timer.
C2_StaleEventInert ==
    [][(last'.op \in {"open", "close"} /\ ~last'.active) =>
          /\ ws' = ws
          /\ isConnecting' = isConnecting
          /\ reconnectAttempts' = reconnectAttempts
          /\ shouldReconnect' = shouldReconnect
          /\ ~last'.closedHandle
          /\ timers' = timers]_vars

\* C3: a reconnect timer that fires after disconnect(), before the caller has
\* called connect() again, creates no socket and leaves the channel idle:
\* shouldReconnect false, no socket in the handle, not connecting.
C3_TimerAfterDisconnect ==
    (last.op = "timer" /\ "disconnect" \in stopped) =>
        /\ ~last.created
        /\ ~shouldReconnect
        /\ ws = NoSocket
        /\ ~isConnecting

\* C4: no event of a socket dropped by disconnect() invokes a registered
\* callback, whichever connect() registered it.
C4_DiscardedSocketSilent ==
    (SocketEvent(last) /\ last.disc) => last.calls = <<>>

\* C5: reconnectAttempts stays within 0 .. maxReconnectAttempts.
C5_AttemptsBounded ==
    reconnectAttempts \in 0 .. maxReconnectAttempts

C5_Witness ==
    /\ reconnectAttempts = maxReconnectAttempts
    /\ ActiveClose(last)
    /\ timers = 1

\* C6: with shouldReconnect true, a close of the socket in the handle with a
\* code other than 1008 at a count of reconnectAttempts below 5 adds one to the
\* count, schedules exactly one timer and reports no terminal error, and at a
\* count of 5 it sets shouldReconnect false, calls onError with the terminal
\* message and schedules no timer.  The count is the number of such closes
\* since the last successful open: nothing else changes it.  And
\* shouldReconnect is true at each of these closes as long as the token is
\* present: every socket is created with shouldReconnect true, and while a
\* socket is in the handle only a timer that finds no token sets it false.  So
\* of six such closes in a row from count 0 the first five schedule one timer
\* each and the sixth is terminal.
C6_RetryLadder ==
    [][/\ (ActiveClose(last') /\ last'.code # POLICY_VIOLATION /\ shouldReconnect) =>
            IF reconnectAttempts < maxReconnectAttempts
            THEN /\ reconnectAttempts' = reconnectAttempts + 1
                 /\ timers' = timers + 1
                 /\ shouldReconnect'
                 /\ ~Called(last', "onError", MsgMaxAttempts)
            ELSE /\ reconnectAttempts' = reconnectAttempts
                 /\ timers' = timers
                 /\ ~shouldReconnect'
                 /\ callbacks["onError"] # None => Called(last', "onError", MsgMaxAttempts)
       /\ reconnectAttempts' # reconnectAttempts =>
            \/ /\ ActiveClose(last') /\ last'.code # POLICY_VIOLATION /\ shouldReconnect
               /\ reconnectAttempts' = reconnectAttempts + 1
            \/ /\ last'.op = "open" /\ last'.active /\ shouldReconnect
               /\ reconnectAttempts' = 0
       /\ last'.created => shouldReconnect'
       /\ (shouldReconnect /\ ~shouldReconnect' /\ ws' # NoSocket) =>
            (last'.op = "timer" /\ ~token)]_vars

C6_Witness ==
    /\ ActiveClose(last)
    /\ last.code # POLICY_VIOLATION
    /\ reconnectAttempts = maxReconnectAttempts
    /\ ~shouldReconnect
    /\ Called(last, "onError", MsgMaxAttempts)
    /\ timers = 0

\* C7: a close with code 1008 of the socket in the handle, whatever
\* shouldReconnect and reconnectAttempts are, sets shouldReconnect false, calls
\* onError with the authentication-failure message, leaves reconnectAttempts as
\* it was and schedules no timer.
C7_PolicyViolationFatal ==
    [][(ActiveClose(last') /\ last'.code = POLICY_VIOLATION) =>
          /\ ~shouldReconnect'
          /\ callbacks["onError"] # None => Called(last', "onError", MsgAuthFailed)
          /\ ~Called(last', "onError", MsgMaxAttempts)
          /\ reconnectAttempts' = reconnectAttempts
          /\ timers' = timers]_vars

C7_Witness ==
    /\ ActiveClose(last)
    /\ last.code = POLICY_VIOLATION
    /\ Called(last, "onError", MsgAuthFailed)
    /\ reconnectAttempts = maxReconnectAttempts

\* C8: after an authentication failure (a 1008 close of the socket in the
\* handle, or the token missing when a reconnect timer fires) no socket is
\* created until the caller calls connect() again.
C8_NoSocketAfterAuthFailure ==
    "auth" \in stopped => ~last.created

\* C9: connect(callbacks) while the socket in the handle is OPEN creates no
\* socket, leaves the handle, the sockets and reconnectAttempts as they were,
\* merges the callbacks into the registered ones and invokes no callback.
C9_ConnectWhileOpen ==
    [][(last'.op = "connect" /\ ws = "OPEN") =>
          /\ ~last'.created
          /\ ws' = ws
          /\ orphans' = orphans
          /\ reconnectAttempts' = reconnectAttempts
          /\ callbacks' = [k \in Keys |-> IF last'.arg[k] # None THEN last'.arg[k]
                                          ELSE callbacks[k]]
          /\ last'.calls = <<>>]_vars

C9_Witness ==
    /\ last.op = "connect"
    /\ ws = "OPEN"
    /\ ~last.created
    /\ last.arg["onError"] = "B"
    /\ last.arg["onConnect"] = None
    /\ callbacks["onError"] = "B"
    /\ callbacks["onConnect"] = "A"

\* C10: connect() while the socket in the handle is CONNECTING creates no
\* socket and only merges the callbacks.
C10_ConnectWhileConnecting ==
    [][(last'.op = "connect" /\ ws = "CONNECTING") =>
          /\ ~last'.created
          /\ ws' = ws
          /\ orphans' = orphans
          /\ callbacks' = [k \in Keys |-> IF last'.arg[k] # None THEN last'.arg[k]
                                          ELSE callbacks[k]]]_vars

\* C11: connect() with no token in storage while the channel is idle (no
\* socket in the handle, not connecting) creates no socket, invokes onError
\* (when one is registered after the merge) once with the missing-token
\* message and nothing else, returns normally and leaves the channel idle.
C11_ConnectWithoutToken ==
    [][(last'.op = "connect" /\ ~token /\ ws = NoSocket /\ ~isConnecting) =>
          /\ ~last'.created
          /\ ~last'.err
          /\ ws' = NoSocket
          /\ ~isConnecting'
          /\ orphans' = orphans
          /\ timers' = timers
          /\ last'.calls =
                IF callbacks'["onError"] = None THEN <<>>
                ELSE <<[key |-> "onError", fn |-> callbacks'["onError"],
                        msg |-> MsgNoToken]>>]_vars

C11_Witness ==
    /\ last.op = "connect"
    /\ ~token
    /\ ws = NoSocket
    /\ ~isConnecting
    /\ Len(last.calls) = 1
    /\ Called(last, "onError", MsgNoToken)
    /\ ~last.created

\* C12: a reconnect timer that fires while the token is absent creates no
\* socket, sets shouldReconnect false, invokes onError (when registered) with
\* the token-expired message and schedules no timer; the token is the one in
\* storage when the timer fires.
C12_TimerWithoutToken ==
    [][(last'.op = "timer" /\ ~token) =>
          /\ ~last'.created
          /\ ~shouldReconnect'
          /\ timers' = timers - 1
          /\ ws' = ws
          /\ orphans' = orphans
          /\ isConnecting' = isConnecting
          /\ last'.calls =
                IF callbacks["onError"] = None THEN <<>>
                ELSE <<[key |-> "onError", fn |-> callbacks["onError"],
                        msg |-> MsgExpired]>>]_vars

\* The timer was scheduled by a close of a socket, so a token was present when
\* that socket was created; it is absent now.
C12_Witness ==
    /\ last.op = "timer"
    /\ ~token
    /\ reconnectAttempts > 0
    /\ ~last.created
    /\ ~shouldReconnect
    /\ Called(last, "onError", MsgExpired)
    /\ timers = 0

\* C13: a frame that fails to decode leaves the handle, the sockets, the
\* connecting flag, reconnectAttempts, shouldReconnect and the callbacks as
\* they were, invokes no callback, calls close() on nothing and schedules no
\* timer; a frame that arrives right after it is dispatched as usual.
C13_MalformedFrameDropped ==
    [][/\ (last'.op = "message" /\ last'.frame = "malformed") =>
            /\ ws' = ws
            /\ orphans' = orphans
            /\ isConnecting' = isConnecting
            /\ reconnectAttempts' = reconnectAttempts
            /\ shouldReconnect' = shouldReconnect
            /\ callbacks' = callbacks
            /\ timers' = timers
            /\ last'.calls = <<>>
            /\ ~last'.closedHandle
       /\ (last.op = "message" /\ last.frame = "malformed"
             /\ last'.op = "message" /\ last'.frame = "scan_signal"
             /\ callbacks["onScanSignal"] # None) =>
            Called(last', "onScanSignal", NoMsg)]_vars

C13_Witness ==
    /\ last.op = "message"
    /\ last.frame = "malformed"
    /\ last.active
    /\ ws = "OPEN"
    /\ shouldReconnect
    /\ callbacks["onError"] # None

\* A decoded frame has been handled.
Handled == phase = "handled" /\ inbound.ok
\* The object v with its property f set to x.
With(v, f, x) == [v EXCEPT !.o[f] = x]
\* What ws.onmessage of the channel does with the decoded value v.
Outcome(v) == Received(channel, registered, [ok |-> TRUE, value |-> v])
NonEmptyString(v) == v.t = "string" /\ v.s # <<>>
\* The kind the channel's switch tests.
KindOf(v) == IF channel = "account" THEN messageType(v) ELSE Get(v, "type")

\* C14: handling a decoded JSON value, on either channel, invokes at most one
\* callback, a registered one, once, or none, and no exception leaves the
\* message handler.
C14_OneCallbackOrNone ==
    Handled =>
        /\ Len(delivered) <= 1
        /\ \A i \in 1 .. Len(delivered) : delivered[i].key \in registered
        /\ ~escaped

\* null on the account channel: reading message.event throws inside the try.
C14_Witness ==
    /\ Handled
    /\ channel = "account"
    /\ inbound.value = Null
    /\ WebSocketService_handleMessage(registered, inbound.value).threw
    /\ delivered = <<>>
    /\ ~escaped

C16_PositionsWrapped ==
    (Handled /\ channel = "account" /\ inbound.value.t = "object"
       /\ messageType(inbound.value) \in {Str(<<"position", "s">>),
                                          Str(<<"position", "_update">>)}
       /\ "onPositions" \in registered) =>
        delivered =
            <<[key |-> "onPositions",
               arg |-> IF IsArray(Get(inbound.value, "data"))
                       THEN Get(inbound.value, "data")
                       ELSE Arr(<<Get(inbound.value, "data")>>)]>>

\* C16 (amended): for a frame of kind positions or position_update,
\* onPositions is invoked once with an array: the payload itself when it is
\* an array; otherwise the one-element array of the payload, except that kind
\* positions with a falsy payload (absent, null, false, 0, "") gives the empty
\* array.
C16_PositionsArray ==
    (Handled /\ channel = "account" /\ inbound.value.t = "object"
       /\ messageType(inbound.value) \in {Str(<<"position", "s">>),
                                          Str(<<"position", "_update">>)}
       /\ "onPositions" \in registered) =>
        /\ Len(delivered) = 1
        /\ delivered[1].key = "onPositions"
        /\ delivered[1].arg.t = "array"
        /\ delivered[1].arg =
              IF IsArray(Get(inbound.value, "data"))
              THEN Get(inbound.value, "data")
              ELSE IF messageType(inbound.value) = Str(<<"position", "s">>)
                      /\ ~Truthy(Get(inbound.value, "data"))
              THEN Arr(<<>>)
              ELSE Arr(<<Get(inbound.value, "data")>>)

\* {"type":"positions","data":{"symbol":"BTCUSDT"}}
C16_Witness ==
    /\ Handled
    /\ channel = "account"
    /\ inbound.value = Obj([type |-> Str(<<"position", "s">>), data |-> BTCUSDT])
    /\ delivered = <<[key |-> "onPositions", arg |-> Arr(<<BTCUSDT>>)]>>

\* C17: on the scan-signal channel a frame that decodes to a bare array is
\* passed to onScanSignal (when registered) exactly once, as it is: same
\* elements in the same order, the empty array included.
C17_BareArrayBatch ==
    (Handled /\ channel = "client" /\ IsArray(inbound.value)) =>
        delivered = IF "onScanSignal" \in registered
                    THEN <<[key |-> "onScanSignal", arg |-> inbound.value]>>
                    ELSE <<>>

C17_Witness ==
    /\ Handled
    /\ channel = "client"
    /\ inbound.value = Arr(<<ETHUSDT, BTCUSDT>>)
    /\ Len(delivered) = 1
    /\ delivered[1].key = "onScanSignal"
    /\ delivered[1].arg.a = <<ETHUSDT, BTCUSDT>>

\* C18: for a frame of kind error, onError gets a string: the payload's
\* message when that is a string, otherwise a fallback string.
C18_ErrorArgumentIsString ==
    (Handled /\ inbound.value.t = "object"
       /\ KindOf(inbound.value) = Str(<<"error">>)
       /\ "onError" \in registered) =>
        /\ Len(delivered) = 1
        /\ delivered[1].key = "onError"
        /\ delivered[1].arg.t = "string"
        /\ NonEmptyString(OptGet(Get(inbound.value, "data"), "message")) =>
              delivered[1].arg = OptGet(Get(inbound.value, "data"), "message")

\* C19: for every dataset size N >= 1 and every index k with 0 <= k < N, a
\* click whose x-coordinate is the x at which candle k is drawn resolves to
\* selection index k.
C19_ClickCenterSelectsCandle ==
    (chartLast.op = "click" /\ chartLast.point.kind = "center")
        => chartLast.index = chartLast.point.k

\* C20: every change of the displayed symbol (Up/Down arrow key, horizontal
\* swipe, typed symbol confirmed with Enter, a change of the symbol prop)
\* sets selectedIndex to null and starts a fetch of the new symbol's candles.
C20_SymbolChangeClearsSelection ==
    chartLast.symbolChanged
        => selectedIndex = NoSelection /\ chartLast.fetchStarted

\* C21: a getCandles response replaces the chart data only when it is for the
\* symbol displayed: after overlapping fetches for two symbols have resolved,
\* in either order, the data shown are those of the current symbol.
C21_StaleResponseIgnored ==
    chartLast.op = "resolve" => chartData.symbol = currentSymbol

\* What a step of symbol navigation is: ArrowDown and a swipe to the right
\* are 'next', ArrowUp and a swipe to the left are 'previous'.
NavigatesNext == chartLast'.op \in {"ArrowDown", "right"}
NavigatesPrevious == chartLast'.op \in {"ArrowUp", "left"}

\* C22: in a list of length n holding the current symbol at index i (from 0),
\* 'next' selects index (i+1) mod n and 'previous' index (i-1) mod n; when the
\* list is empty or does not hold the current symbol, navigation changes
\* nothing and calls no onSymbolChange.
C22_SymbolNavigationWraps ==
    [][LET n == Len(symbolList)
           i == indexOf(symbolList, currentSymbol) - 1
       IN  (NavigatesNext \/ NavigatesPrevious) =>
              IF n = 0 \/ i < 0
              THEN UNCHANGED <<currentSymbol, symbol, selectedIndex, chartData, requests>>
              ELSE /\ NavigatesNext => currentSymbol' = symbolList[((i + 1) % n) + 1]
                   /\ NavigatesPrevious => currentSymbol' = symbolList[((i - 1 + n) % n) + 1]
                   /\ symbol' = currentSymbol']_vars

\* 'next' from the last symbol C has selected the first, A; 'previous' from the
\* first has selected the last.
C22_Witness ==
    /\ symbolList = << <<"A">>, <<"B">>, <<"C">> >>
    /\ chartLast.symbolChanged
    /\ \/ chartLast.op = "ArrowDown" /\ currentSymbol = <<"A">>
       \/ chartLast.op = "left" /\ currentSymbol = <<"C">>

\* C23: with N >= 1 candles, ArrowRight moves the selection i to i+1 when
\* i < N-1 and leaves it at N-1 otherwise, ArrowLeft moves i to i-1 when i > 0
\* and leaves it at 0 otherwise; with no selection ArrowRight selects 0 and
\* ArrowLeft N-1; with no data or N = 0 both keys change nothing.
C23_ArrowsClampSelection ==
    [][LET N == chartData.n
           i == selectedIndex
       IN  /\ chartLast'.op \in {"ArrowLeft", "ArrowRight"} =>
                UNCHANGED <<currentSymbol, symbol, chartData, requests>>
           /\ chartLast'.op = "ArrowRight" =>
                selectedIndex' = IF chartData = NoData \/ N = 0 THEN i
                                 ELSE IF i = NoSelection THEN 0
                                 ELSE IF i < N - 1 THEN i + 1
                                 ELSE N - 1
           /\ chartLast'.op = "ArrowLeft" =>
                selectedIndex' = IF chartData = NoData \/ N = 0 THEN i
                                 ELSE IF i = NoSelection THEN N - 1
                                 ELSE IF i > 0 THEN i - 1
                                 ELSE 0]_vars

\* C24: for every candle count N >= 1 and chart width W, the stride s of the
\* time labels puts consecutive labels at least minLabelWidth apart:
\* s * W / N >= minLabelWidth.
C24_LabelsApart ==
    drawn.done =>
        drawn.timeStep * chartWidth(viewport) >= minLabelWidth(viewport) * Len(candles)

\* The divisor of the price-to-y mapping is strictly positive.
PositiveRange == ~drawn.scaledRange.neg /\ drawn.scaledRange.m # <<>>
\* 2^50
PriceLimit == Signed([m |-> <<1>>, e |-> 50])

C26_DisconnectResets ==
    [][last'.op = "disconnect" =>
          /\ ~shouldReconnect'
          /\ ~isConnecting'
          /\ ws' = NoSocket
          /\ callbacks' = NoCallbacks
          /\ last'.calls = <<>>
          /\ ws \in {"CONNECTING", "OPEN"} =>
                /\ last'.closedHandle
                /\ orphans' = [orphans EXCEPT ![<<AfterClose(ws), TRUE>>] = @ + 1]]_vars

\* disconnect() has returned after closing the socket of the handle, after
\* failed attempts.
C26_Witness ==
    /\ last.op = "disconnect"
    /\ last.closedHandle
    /\ reconnectAttempts > 0
    /\ \E k \in OrphanKinds : k[2] /\ orphans[k] > 0

\* C27: when the transport reports open for the socket in the handle while
\* shouldReconnect is true, the connecting flag becomes false,
\* reconnectAttempts becomes 0 and onConnect is invoked exactly once; when the
\* open is reported for a superseded or cancelled attempt, reconnectAttempts
\* is not reset and onConnect is not invoked.
C27_OpenResetsAttempts ==
    [][last'.op = "open" =>
          IF last'.active /\ shouldReconnect
          THEN /\ ~isConnecting'
               /\ reconnectAttempts' = 0
               /\ ws' = "OPEN"
               /\ last'.calls =
                     IF callbacks.onConnect = None THEN <<>>
                     ELSE <<[key |-> "onConnect", fn |-> callbacks.onConnect, msg |-> NoMsg]>>
          ELSE /\ reconnectAttempts' = reconnectAttempts
               /\ last'.calls = <<>>]_vars

\* The socket in the handle has opened: the attempts are at 0 and onConnect
\* was invoked.
C27_Witness ==
    /\ last.op = "open"
    /\ last.active
    /\ reconnectAttempts = 0
    /\ Len(last.calls) = 1
    /\ last.calls[1].key = "onConnect"
    /\ ws = "OPEN"

\* An orphan has opened after failed attempts: they still count.
C27_WitnessStale ==
    /\ last.op = "open"
    /\ ~last.active
    /\ reconnectAttempts > 0

\* The caller calls connect().
CallerConnects == last'.op = "connect"
\* A socket opens successfully: it is the one in the handle, not cancelled.
OpensSuccessfully == last'.op = "open" /\ last'.active /\ shouldReconnect
\* The channel creates a socket or schedules a reconnect timer.
CreatesOrSchedules == last'.created \/ timers' > timers

\* C28: in every run in which, from some point on, no socket opens
\* successfully and the caller makes no further connect() call, the channel
\* eventually stops creating sockets and scheduling timers, timer callbacks
\* and close events being delivered fairly.
C28_RetriesEnd ==
    <>[][~CallerConnects /\ ~OpensSuccessfully]_vars
        => <>[][~CreatesOrSchedules]_vars

\* The last allowed attempt has failed: the channel gives up with the error
\* callback and schedules nothing.
C28_Witness ==
    /\ last.op = "close"
    /\ last.active
    /\ reconnectAttempts = maxReconnectAttempts
    /\ ~shouldReconnect
    /\ timers = 0
    /\ ws = NoSocket

\* C29: reconnectAttempts is set to 0 only by a successful open of the socket
\* in the handle: disconnect(), connect() and a terminal or authentication
\* error leave it unchanged, so a connect() issued after the retry cap was
\* reached starts with the attempts consumed and gets no automatic retry when
\* its socket closes before opening.
C29_AttemptsResetOnlyByOpen ==
    [][/\ reconnectAttempts' # reconnectAttempts =>
             \/ /\ last'.op = "open" /\ last'.active /\ shouldReconnect
                /\ reconnectAttempts' = 0
             \/ /\ last'.op = "close" /\ last'.active
                /\ reconnectAttempts < maxReconnectAttempts
                /\ reconnectAttempts' = reconnectAttempts + 1
       /\ last'.op \in {"connect", "disconnect", "timer"} =>
             reconnectAttempts' = reconnectAttempts
       /\ (last'.op = "close" /\ last'.active
             /\ (last'.code = POLICY_VIOLATION
                   \/ reconnectAttempts >= maxReconnectAttempts)) =>
             /\ reconnectAttempts' = reconnectAttempts
             /\ timers' = timers
             /\ ~last'.created
             /\ ~shouldReconnect']_vars

\* connect() has created a socket after the retry cap was reached: the
\* attempts are all consumed.
C29_Witness ==
    /\ last.op = "connect"
    /\ last.created
    /\ reconnectAttempts = maxReconnectAttempts
    /\ ws = "CONNECTING"

\* The socket of that connect() has closed before it opened: no timer.
C29_WitnessNoRetry ==
    /\ last.op = "close"
    /\ last.active
    /\ last.code = 1006
    /\ reconnectAttempts = maxReconnectAttempts
    /\ timers = 0
    /\ ~shouldReconnect

\* C30: in every reachable chart state selectedIndex is null or an index of
\* the dataset loaded: 0 <= selectedIndex < N, across clicks, arrow keys,
\* symbol changes and reloads that return a dataset of another length.
C30_SelectionInRange ==
    \/ selectedIndex = NoSelection
    \/ /\ chartData # NoData
       /\ 0 <= selectedIndex
       /\ selectedIndex < chartData.n

====
